---- MODULE Spec2Model ----
(***************************************************************************)
(* Connect-4 move-selection bots (src/bots): the depth-limited ExpectiMax  *)
(* search, the Monte Carlo tree search with tree reuse, the simulated-     *)
(* annealing bot and the genetic bot.                                      *)
(*                                                                         *)
(* The Board and the Evaluation base class are imported by the bots        *)
(* (bots.evaluation, the board passed to get_move) but are not among the   *)
(* source files; they are modelled from the specification's sections 3,    *)
(* 4.1 and 6.                                                              *)
(***************************************************************************)
EXTENDS Integers, Sequences, FiniteSets, TLC

VARIABLES
    board,        \* the game's board, the one handed to get_move
    bot,          \* the bot asked for moves
    pc,           \* where the game and the running get_move are
    result,       \* what the last get_move returned
    before,       \* the board as it was when get_move was called
    nodes,        \* the Node objects created so far, by identity
    currentNode,  \* MonteCarloBot.currentNode
    rootnode,     \* montecarlo_tree_search: rootnode
    node,         \* montecarlo_tree_search: node
    state,        \* montecarlo_tree_search: state, the working board
    iter,         \* montecarlo_tree_search: iterations completed in this call
    started,      \* visit count of rootnode when this call started
    turns,        \* get_move calls made on the MonteCarloBot
    opt           \* locals of a running simulated_annealing / genetic_algorithm

gamevars == <<board, bot, pc, result, before, opt>>
gamevars_but_pc == <<board, bot, result, before, opt>>
mcvars == <<nodes, currentNode, rootnode, node, state, iter, started, turns>>
vars == <<board, bot, pc, result, before, opt,
          nodes, currentNode, rootnode, node, state, iter, started, turns>>

----------------------------------------------------------------------------
(* Bounds of the model.                                                    *)

\* grid size of the boards handed to an ExpectiMaxBot (the program plays
\* on 6 x 7; ROW_COUNT and COLUMN_COUNT are attributes of the board object)
EMRows == 2
EMCols == 6
\* largest search depth an ExpectiMaxBot is configured with
MaxDepth == 2
\* pieces on the board when an ExpectiMaxBot is asked at the latest
EMMaxPlies == 7
\* grid size of the games a MonteCarloBot plays
MCRows == 2
MCCols == 4
\* empty cells left when the MonteCarloBot joins the game at the earliest
MCMaxEmpty == 3
\* grid size of the games a SimulatedAnnealing or GeneticAlgorithm bot plays
OptRows == 2
OptCols == 5
\* n_iterations of a SimulatedAnnealing bot (the program sets 1000)
SAIterations == 2
\* population_size, elite_size and generations of genetic_algorithm (the
\* program's defaults are 50, 10 and 50)
GAPopulation == 2
GAElite == 1
GAGenerations == 2
\* largest max_iterations a MonteCarloBot is configured with
MaxIterations == 3
\* get_move calls made on one MonteCarloBot
MaxTurns == 2

----------------------------------------------------------------------------
(* Program constants.                                                      *)

EMPTY == 0
PLAYER1_PIECE == 1
PLAYER2_PIECE == 2
\* length of a scoring / winning window
WINDOW_LENGTH == 4

\* Terminal rewards of expectimax.  The source uses 100000000000000 and
\* -10000000000000; TLC's integers are 32 bits wide, so the model keeps the
\* sign, the 10:1 ratio and the dominance over every heuristic score.
BOT_WIN_SCORE == 1000000000
OPP_WIN_SCORE == -100000000
\* -math.inf: below every score
NEG_INF == -2000000000

\* default weights of ExpectiMaxBot.__init__
CENTER_WEIGHT == 3
FOUR_WEIGHT == 100
THREE_WEIGHT == 5
TWO_WEIGHT == 2
OPP_THREE_PENALTY == 4

\* Python's None: a value that is no column index
None == 0 - 1

\* the column random.choice(valid_locations) draws, until the draw is made
DRAWN == 0 - 2

Pieces == {PLAYER1_PIECE, PLAYER2_PIECE}
Columns(b) == 0 .. b.COLUMN_COUNT - 1
Rows(b) == 0 .. b.ROW_COUNT - 1

Max(a, b) == IF a >= b THEN a ELSE b

----------------------------------------------------------------------------
(* Board: columns are stacks filled from row 0 upwards.                    *)

OtherPiece(piece) == IF piece = PLAYER1_PIECE THEN PLAYER2_PIECE ELSE PLAYER1_PIECE

EmptyBoard(rows, cols) ==
    [ cells       |-> [c \in 0 .. cols - 1 |-> <<>>],
      ROW_COUNT   |-> rows,
      COLUMN_COUNT |-> cols,
      CURR_PLAYER |-> PLAYER1_PIECE,
      PREV_PLAYER |-> PLAYER2_PIECE,
      PREV_MOVE   |-> None ]

Cell(b, r, c) == IF r < Len(b.cells[c]) THEN b.cells[c][r + 1] ELSE EMPTY

is_valid_location(b, col) == Len(b.cells[col]) < b.ROW_COUNT

RECURSIVE ValidFrom(_, _)
ValidFrom(b, c) ==
    IF c >= b.COLUMN_COUNT THEN <<>>
    ELSE IF is_valid_location(b, c) THEN <<c>> \o ValidFrom(b, c + 1)
         ELSE ValidFrom(b, c + 1)

\* the valid columns in increasing order
get_valid_locations(b) == ValidFrom(b, 0)

copy_board(b) == b

drop_piece(b, col, piece) ==
    [ cells       |-> [b.cells EXCEPT ![col] = Append(@, piece)],
      ROW_COUNT   |-> b.ROW_COUNT,
      COLUMN_COUNT |-> b.COLUMN_COUNT,
      CURR_PLAYER |-> OtherPiece(piece),
      PREV_PLAYER |-> piece,
      PREV_MOVE   |-> col ]

\* a window is its first cell <<r, c>> and its direction <<dr, dc>>
WindowsOfSize(rows, cols) ==
    { w \in ((0 .. rows - 1) \X (0 .. cols - 1))
              \X {<<0, 1>>, <<1, 0>>, <<1, 1>>, <<-1, 1>>} :
        /\ w[1][1] + (WINDOW_LENGTH - 1) * w[2][1] \in 0 .. rows - 1
        /\ w[1][2] + (WINDOW_LENGTH - 1) * w[2][2] \in 0 .. cols - 1 }

BoardSizes == {<<EMRows, EMCols>>, <<MCRows, MCCols>>, <<OptRows, OptCols>>}

WindowTable == [d \in BoardSizes |-> WindowsOfSize(d[1], d[2])]

Windows(b) == WindowTable[<<b.ROW_COUNT, b.COLUMN_COUNT>>]

WindowCells(b, w) ==
    [k \in 1 .. WINDOW_LENGTH |->
        Cell(b, w[1][1] + (k - 1) * w[2][1], w[1][2] + (k - 1) * w[2][2])]

Count(window, v) == Cardinality({k \in DOMAIN window : window[k] = v})

winning_move(b, piece) ==
    \E w \in Windows(b) :
        \A k \in 0 .. WINDOW_LENGTH - 1 :
            Cell(b, w[1][1] + k * w[2][1], w[1][2] + k * w[2][2]) = piece

is_terminal_node(b) ==
    \/ winning_move(b, PLAYER1_PIECE)
    \/ winning_move(b, PLAYER2_PIECE)
    \/ get_valid_locations(b) = <<>>

----------------------------------------------------------------------------
(* Evaluation (base class) and the ExpectiMaxBot overrides.                *)

base_evaluate_window(window, piece) ==
    LET nOwn   == Count(window, piece)
        nEmpty == Count(window, EMPTY)
        nOpp   == Count(window, OtherPiece(piece))
        own ==
            IF nOwn = 4 THEN 100
            ELSE IF nOwn = 3 /\ nEmpty = 1 THEN 5
            ELSE IF nOwn = 2 /\ nEmpty = 2 THEN 2
            ELSE 0
        threat == IF nOpp = 3 /\ nEmpty = 1 THEN -4 ELSE 0
    IN own + threat

evaluate_window(window, piece) ==
    LET nOwn   == Count(window, piece)
        nEmpty == Count(window, EMPTY)
        nOpp   == Count(window, OtherPiece(piece))
        base_score == base_evaluate_window(window, piece)
        own ==
            IF nOwn = 4 THEN FOUR_WEIGHT - 100
            ELSE IF nOwn = 3 /\ nEmpty = 1 THEN THREE_WEIGHT - 5
            ELSE IF nOwn = 2 /\ nEmpty = 2 THEN TWO_WEIGHT - 2
            ELSE 0
        threat ==
            IF nOpp = 3 /\ nEmpty = 1 THEN (-OPP_THREE_PENALTY) - (-4) ELSE 0
    IN base_score + own + threat

RECURSIVE SumWindows(_, _, _)
SumWindows(b, piece, ws) ==
    IF ws = {} THEN 0
    ELSE LET w == CHOOSE x \in ws : TRUE
         IN evaluate_window(WindowCells(b, w), piece)
            + SumWindows(b, piece, ws \ {w})

center_count(b, piece) ==
    Cardinality({r \in Rows(b) : Cell(b, r, b.COLUMN_COUNT \div 2) = piece})

base_score_position(b, piece) ==
    center_count(b, piece) * 3 + SumWindows(b, piece, Windows(b))

score_position(b, piece) ==
    base_score_position(b, piece) + center_count(b, piece) * (CENTER_WEIGHT - 3)

----------------------------------------------------------------------------
(* ExpectiMaxBot.expectimax.  A call returns the chosen column, the value  *)
(* and the board object it was handed as the call leaves it (Python passes *)
(* the board by reference).  The default column, drawn by random.choice,   *)
(* stays DRAWN until get_move's caller sees it.                            *)

RECURSIVE expectimax(_, _, _, _, _, _)
RECURSIVE MaxBody(_, _, _, _, _, _, _, _)
RECURSIVE ExpectBody(_, _, _, _, _, _, _, _, _)
RECURSIVE MaxLoop(_, _, _, _, _, _, _, _, _)
RECURSIVE ExpectLoop(_, _, _, _, _, _, _, _, _)

\* MaxBody with the piece dropped on the board itself, not on a copy
MaxBodyOnBoard(piece, b, col, depth, alpha, beta, value, column) ==
    LET b1        == drop_piece(b, col, piece)
        new_score == expectimax(piece, b1, depth - 1, alpha, beta, FALSE).value
        better    == new_score > value
        value2    == IF better THEN new_score ELSE value
        alpha2    == Max(alpha, value2)
    IN [ board  |-> b1,
         value  |-> value2,
         column |-> IF better THEN col ELSE column,
         alpha  |-> alpha2,
         brk    |-> alpha2 >= beta ]

\* one pass of the loop of a maximizing node (lines 140-156)
MaxBody(piece, b, col, depth, alpha, beta, value, column) ==
    LET b_copy    == drop_piece(copy_board(b), col, piece)
        new_score == expectimax(piece, b_copy, depth - 1, alpha, beta, FALSE).value
        better    == new_score > value
        value2    == IF better THEN new_score ELSE value
        alpha2    == Max(alpha, value2)
    IN [ board  |-> b,
         value  |-> value2,
         column |-> IF better THEN col ELSE column,
         alpha  |-> alpha2,
         brk    |-> alpha2 >= beta ]

MaxLoop(piece, b, depth, alpha, beta, valid, i, value, column) ==
    IF i > Len(valid) THEN [column |-> column, value |-> value, board |-> b]
    ELSE LET s == MaxBody(piece, b, valid[i], depth, alpha, beta, value, column)
         IN IF s.brk
            THEN [column |-> s.column, value |-> s.value, board |-> s.board]
            ELSE MaxLoop(piece, s.board, depth, s.alpha, beta, valid, i + 1,
                         s.value, s.column)

\* one pass of the loop of an expectation node (lines 168-186)
ExpectBody(piece, b, col, depth, alpha, beta, value, column, nvalid) ==
    LET b_copy    == drop_piece(copy_board(b), col, OtherPiece(piece))
        new_score == expectimax(piece, b_copy, depth - 1, alpha, beta, TRUE).value
        lower     == new_score <= value
        value2    == IF lower THEN new_score ELSE value
        beta2     == value2 \div nvalid
    IN [ board  |-> b,
         value  |-> value2,
         column |-> IF lower THEN col ELSE column,
         beta   |-> beta2,
         brk    |-> alpha >= beta2 ]

ExpectLoop(piece, b, depth, alpha, beta, valid, i, value, column) ==
    IF i > Len(valid) THEN [column |-> column, value |-> value, board |-> b]
    ELSE LET s == ExpectBody(piece, b, valid[i], depth, alpha, beta, value, column,
                             Len(valid))
         IN IF s.brk
            THEN [column |-> s.column, value |-> s.value, board |-> s.board]
            ELSE ExpectLoop(piece, s.board, depth, alpha, s.beta, valid, i + 1,
                            s.value, s.column)

expectimax(piece, b, depth, alpha, beta, maximizingPlayer) ==
    LET valid_locations == get_valid_locations(b)
        is_terminal     == is_terminal_node(b)
    IN IF depth = 0 \/ is_terminal
       THEN IF is_terminal
            THEN IF winning_move(b, piece)
                 THEN [column |-> None, value |-> BOT_WIN_SCORE, board |-> b]
                 ELSE IF winning_move(b, OtherPiece(piece))
                 THEN [column |-> None, value |-> OPP_WIN_SCORE, board |-> b]
                 ELSE [column |-> None, value |-> 0, board |-> b]
            ELSE [column |-> None, value |-> score_position(b, piece), board |-> b]
       ELSE IF maximizingPlayer
            THEN MaxLoop(piece, b, depth, alpha, beta, valid_locations, 1,
                         NEG_INF, DRAWN)
            ELSE ExpectLoop(piece, b, depth, alpha, beta, valid_locations, 1,
                            0, DRAWN)

\* ExpectiMaxBot.get_move: the column returned and the caller's board after
expectimax_get_move(piece, depth, b) ==
    LET r == expectimax(piece, b, depth, NEG_INF, 0, TRUE)
    IN [col |-> r.column, board |-> r.board]

----------------------------------------------------------------------------
(* The game around the bots: pieces are dropped in turn until the game is  *)
(* over; a bot may be asked for a move on any board.                       *)

\* Python's None where a Node is expected
NoNode == 0

\* no simulated_annealing / genetic_algorithm call is running
NoLocals == <<>>

\* the game starts on an empty board with the bot constructed
InitWith(rows, cols, theBot) ==
    /\ board = EmptyBoard(rows, cols)
    /\ bot = theBot
    /\ pc = "game"
    /\ result = None
    /\ before = board
    /\ nodes = <<>>
    /\ currentNode = NoNode
    /\ rootnode = NoNode
    /\ node = NoNode
    /\ state = board
    /\ iter = 0
    /\ started = 0
    /\ turns = 0
    /\ opt = NoLocals

\* ExpectiMaxBot(piece, depth)
InitEM ==
    \E p \in Pieces, d \in 1 .. MaxDepth :
        InitWith(EMRows, EMCols,
                 [kind |-> "expectimax", piece |-> p, depth |-> d, max_iterations |-> 0])

RECURSIVE SumLen(_, _)
SumLen(cells, c) == IF c < 0 THEN 0 ELSE Len(cells[c]) + SumLen(cells, c - 1)

\* number of pieces on the board
Plies(b) == SumLen(b.cells, b.COLUMN_COUNT - 1)

\* the game loop plays a column for the player to move, while the game is on
PlayUpTo(kinds, maxPlies) ==
    /\ pc = "game"
    /\ bot.kind \in kinds
    /\ ~is_terminal_node(board)
    /\ Plies(board) < maxPlies
    /\ \E col \in Columns(board) :
        /\ is_valid_location(board, col)
        /\ board' = drop_piece(board, col, board.CURR_PLAYER)
    /\ UNCHANGED <<bot, pc, result, before, opt>>
    /\ UNCHANGED mcvars

PlayEM == PlayUpTo({"expectimax"}, EMMaxPlies)

\* ExpectiMaxBot.get_move(board), asked when it is the bot's turn
ExpectiMaxGetMove ==
    /\ pc = "game"
    /\ bot.kind = "expectimax"
    /\ board.CURR_PLAYER = bot.piece
    /\ LET r == expectimax_get_move(bot.piece, bot.depth, board)
       IN /\ IF r.col = DRAWN
             THEN \E k \in DOMAIN get_valid_locations(board) :
                      result' = get_valid_locations(board)[k]
             ELSE result' = r.col
          /\ board' = r.board
    /\ before' = board
    /\ pc' = "returned"
    /\ UNCHANGED <<bot, opt>>
    /\ UNCHANGED mcvars

NextEM == PlayEM \/ ExpectiMaxGetMove

SpecEM == InitEM /\ [][NextEM]_vars

----------------------------------------------------------------------------
(* MonteCarloBot and Node.  A Node is an entry of nodes; its identity is   *)
(* its index.  wins2 is twice Node.wins (a draw adds 0.5).                 *)

\* MonteCarloBot(piece, max_iterations)
InitMC ==
    \E p \in Pieces, m \in 1 .. MaxIterations :
        InitWith(MCRows, MCCols,
                 [kind |-> "montecarlo", piece |-> p, depth |-> 0, max_iterations |-> m])

\* NewNode with every column, full or not, listed as unexplored
NewNodeAllColumns(piece, b, parent, move) ==
    [ board           |-> copy_board(b),
      parent          |-> parent,
      move            |-> move,
      available_moves |-> [k \in 1 .. b.COLUMN_COUNT |-> k - 1],
      children        |-> <<>>,
      wins2           |-> 0,
      visits          |-> 0,
      piece           |-> piece ]

\* Node.__init__
NewNode(piece, b, parent, move) ==
    [ board           |-> copy_board(b),
      parent          |-> parent,
      move            |-> move,
      available_moves |-> get_valid_locations(b),
      children        |-> <<>>,
      wins2           |-> 0,
      visits          |-> 0,
      piece           |-> piece ]

\* list.remove
Remove(seq, x) == SelectSeq(seq, LAMBDA y : y # x)

\* Node_expand with the move left in the parent's unexplored moves
Node_expandKeepsMove(ns, n, move, b) ==
    Append([ns EXCEPT ![n].children = Append(@, Len(ns) + 1)],
           NewNode(b.PREV_PLAYER, b, n, move))

\* Node.expand: the store with the child added, the child being the last
Node_expand(ns, n, move, b) ==
    Append([ns EXCEPT ![n].available_moves = Remove(@, move),
                      ![n].children = Append(@, Len(ns) + 1)],
           NewNode(b.PREV_PLAYER, b, n, move))

\* Node_update without the visit counted
Node_updateNoVisit(ns, n, result2) ==
    [ns EXCEPT ![n].wins2 = @ + result2]

\* Node.update
Node_update(ns, n, result2) ==
    [ns EXCEPT ![n].wins2 = @ + result2, ![n].visits = @ + 1]

\* Board.search_result, doubled: win 2, draw 1, loss 0
search_result2(b, piece) ==
    IF winning_move(b, piece) THEN 2
    ELSE IF winning_move(b, OtherPiece(piece)) THEN 0
    ELSE 1

\* get_child_node that never looks for the child
get_child_node_fresh(ns, n, b, move, piece) ==
    [nodes |-> Append(ns, NewNode(piece, b, NoNode, None)),
     id    |-> Len(ns) + 1]

\* MonteCarloBot.get_child_node: the node returned and the store after
get_child_node(ns, n, b, move, piece) ==
    LET hits == {k \in DOMAIN ns[n].children : ns[ns[n].children[k]].move = move}
    IN IF hits # {}
       THEN [nodes |-> ns,
             id    |-> ns[n].children[CHOOSE k \in hits : \A j \in hits : k <= j]]
       ELSE [nodes |-> Append(ns, NewNode(piece, b, NoNode, None)),
             id    |-> Len(ns) + 1]

\* x.wins / x.visits of child a is at least that of child b
RatioGE(ns, a, b) == ns[a].wins2 * ns[b].visits >= ns[b].wins2 * ns[a].visits

\* BestChild by visit count: the most visited child, the last of several
BestChildMostVisited(ns, n) ==
    LET ch  == ns[n].children
        top == {k \in DOMAIN ch : \A j \in DOMAIN ch : ns[ch[k]].visits >= ns[ch[j]].visits}
    IN ch[CHOOSE k \in top : \A j \in top : j <= k]

\* sorted(rootnode.children, key = win_ratio)[::-1][0]: the sort is stable,
\* so of the children with the highest ratio the last one comes first
BestChild(ns, n) ==
    LET ch  == ns[n].children
        top == {k \in DOMAIN ch : \A j \in DOMAIN ch : RatioGE(ns, ch[k], ch[j])}
    IN ch[CHOOSE k \in top : \A j \in top : j <= k]

EmptyCells(b) == b.ROW_COUNT * b.COLUMN_COUNT - Plies(b)

PlayMC == PlayUpTo({"montecarlo"}, MCRows * MCCols)

\* the bot is asked for its first move with few cells left, and then on
\* each of its turns
MCAsked ==
    \/ /\ pc = "game"
       /\ bot.kind = "montecarlo"
       /\ board.CURR_PLAYER = bot.piece
       /\ ~is_terminal_node(board)
       /\ EmptyCells(board) <= MCMaxEmpty
    \/ pc = "mc_turn"

\* get_move lines 152-160 and montecarlo_tree_search lines 48-63: the tree
\* is re-rooted on the opponent's move and the first iteration is set up
MCGetMoveBegin ==
    /\ MCAsked
    /\ LET fresh == currentNode = NoNode
           n1 == IF fresh
                 THEN Append(nodes, NewNode(bot.piece, board, NoNode, None))
                 ELSE nodes
           c1 == IF fresh THEN Len(nodes) + 1 ELSE currentNode
           r  == IF board.PREV_MOVE # None
                 THEN get_child_node(n1, c1, board, board.PREV_MOVE, board.CURR_PLAYER)
                 ELSE [nodes |-> n1, id |-> c1]
       IN /\ nodes' = r.nodes
          /\ currentNode' = r.id
          /\ rootnode' = r.id
          /\ started' = r.nodes[r.id].visits
          /\ IF bot.max_iterations >= 1
             THEN node' = r.id /\ pc' = "select"
             ELSE node' = NoNode /\ pc' = "pick"
    /\ state' = copy_board(board)
    /\ iter' = 0
    /\ turns' = turns + 1
    /\ before' = board
    /\ UNCHANGED <<board, bot, result, opt>>

\* lines 67-69, one pass: Node.selection sorts the children by their UCT
\* value, a float; any child may be the last of that order
MCSelect ==
    /\ pc = "select"
    /\ nodes[node].available_moves = <<>>
    /\ nodes[node].children # <<>>
    /\ \E k \in DOMAIN nodes[node].children :
        LET child == nodes[node].children[k]
        IN /\ node' = child
           /\ IF is_valid_location(state, nodes[child].move)
              THEN /\ state' = drop_piece(state, nodes[child].move, state.CURR_PLAYER)
                   /\ pc' = "select"
              ELSE /\ state' = state
                   /\ pc' = "raised"
    /\ UNCHANGED <<nodes, currentNode, rootnode, iter, started, turns>>
    /\ UNCHANGED gamevars_but_pc

\* lines 73-77
MCExpand ==
    /\ pc = "select"
    /\ ~(nodes[node].available_moves = <<>> /\ nodes[node].children # <<>>)
    /\ IF nodes[node].available_moves # <<>>
       THEN \E k \in DOMAIN nodes[node].available_moves :
               LET col == nodes[node].available_moves[k]
                   s1  == drop_piece(state, col, state.CURR_PLAYER)
               IN IF is_valid_location(state, col)
                  THEN /\ state' = s1
                       /\ nodes' = Node_expand(nodes, node, col, s1)
                       /\ node' = Len(nodes) + 1
                       /\ pc' = "rollout"
                  ELSE /\ UNCHANGED <<state, nodes, node>>
                       /\ pc' = "raised"
       ELSE /\ UNCHANGED <<state, nodes, node>>
            /\ pc' = "rollout"
    /\ UNCHANGED <<currentNode, rootnode, iter, started, turns>>
    /\ UNCHANGED gamevars_but_pc

\* lines 82-87, one pass
MCRollout ==
    /\ pc = "rollout"
    /\ IF get_valid_locations(state) # <<>>
       THEN \E k \in DOMAIN get_valid_locations(state) :
               LET s1 == drop_piece(state, get_valid_locations(state)[k],
                                    state.CURR_PLAYER)
               IN /\ state' = s1
                  /\ pc' = IF winning_move(s1, s1.PREV_PLAYER)
                           THEN "backprop" ELSE "rollout"
       ELSE /\ state' = state
            /\ pc' = "backprop"
    /\ UNCHANGED <<nodes, currentNode, rootnode, node, iter, started, turns>>
    /\ UNCHANGED gamevars_but_pc

\* MCBackprop that updates the focal node only
MCBackpropFocalOnly ==
    /\ pc = "backprop"
    /\ node # NoNode
    /\ nodes' = Node_update(nodes, node, search_result2(state, nodes[node].piece))
    /\ node' = NoNode
    /\ UNCHANGED <<pc, currentNode, rootnode, state, iter, started, turns>>
    /\ UNCHANGED gamevars_but_pc

\* lines 92-95, one pass
MCBackprop ==
    /\ pc = "backprop"
    /\ node # NoNode
    /\ nodes' = Node_update(nodes, node, search_result2(state, nodes[node].piece))
    /\ node' = nodes[node].parent
    /\ UNCHANGED <<pc, currentNode, rootnode, state, iter, started, turns>>
    /\ UNCHANGED gamevars_but_pc

\* lines 97-100 and the loop head, lines 58-63
MCIterEnd ==
    /\ pc = "backprop"
    /\ node = NoNode
    /\ iter' = iter + 1
    /\ \E timedOut \in BOOLEAN :
        IF iter + 1 < bot.max_iterations /\ ~timedOut
        THEN /\ node' = rootnode
             /\ state' = copy_board(board)
             /\ pc' = "select"
        ELSE /\ UNCHANGED <<node, state>>
             /\ pc' = "pick"
    /\ UNCHANGED <<nodes, currentNode, rootnode, started, turns>>
    /\ UNCHANGED gamevars_but_pc

\* lines 104-113 and get_move lines 160-165
MCPick ==
    /\ pc = "pick"
    /\ IF nodes[rootnode].children = <<>>
          \/ \E k \in DOMAIN nodes[rootnode].children :
                nodes[nodes[rootnode].children[k]].visits = 0
       THEN /\ pc' = "raised"
            /\ UNCHANGED <<nodes, currentNode, result>>
       ELSE LET col == nodes[BestChild(nodes, rootnode)].move
                r   == get_child_node(nodes, rootnode, board, col, board.PREV_PLAYER)
            IN /\ nodes' = r.nodes
               /\ currentNode' = r.id
               /\ result' = col
               /\ pc' = "mc_returned"
    /\ rootnode' = NoNode
    /\ node' = NoNode
    /\ state' = board
    /\ UNCHANGED <<board, bot, before, opt, iter, started, turns>>

\* the game loop drops the bot's piece in the column it chose
MCPlayMove ==
    /\ pc = "mc_returned"
    /\ IF is_valid_location(board, result)
       THEN /\ board' = drop_piece(board, result, board.CURR_PLAYER)
            /\ pc' = "opponent"
       ELSE /\ board' = board
            /\ pc' = "raised"
    /\ state' = board'
    /\ UNCHANGED <<bot, result, before, opt>>
    /\ UNCHANGED <<nodes, currentNode, rootnode, node, iter, started, turns>>

\* the opponent answers, and the bot is asked again while the game is on
OpponentPlay ==
    /\ pc = "opponent"
    /\ ~is_terminal_node(board)
    /\ \E col \in Columns(board) :
        /\ is_valid_location(board, col)
        /\ board' = drop_piece(board, col, board.CURR_PLAYER)
    /\ pc' = IF is_terminal_node(board') \/ turns >= MaxTurns
             THEN "over" ELSE "mc_turn"
    /\ state' = board'
    /\ UNCHANGED <<bot, result, before, opt>>
    /\ UNCHANGED <<nodes, currentNode, rootnode, node, iter, started, turns>>

NextMC ==
    \/ PlayMC \/ MCGetMoveBegin \/ MCSelect \/ MCExpand \/ MCRollout
    \/ MCBackprop \/ MCIterEnd \/ MCPick \/ MCPlayMove \/ OpponentPlay

SpecMC == InitMC /\ [][NextMC]_vars

\* both searching bots
SpecBots == (InitEM \/ InitMC) /\ [][NextEM \/ NextMC]_vars

----------------------------------------------------------------------------
(* SimulatedAnnealing.  objective_function drops the piece on the board it *)
(* is handed and scores the copy taken before the drop; its window scans   *)
(* read rows 0..5 and columns 0..6 of the grid whatever the board's size.  *)

\* math.inf
INF == 2000000000
\* objective value of an immediate win
SA_WIN_EVAL == -100000

score_window(window, piece, opp_piece) ==
    LET piece_count == Count(window, piece)
        empty_count == Count(window, 0)
        opp_count   == Count(window, opp_piece)
        own ==
            IF piece_count = 4 THEN 1000
            ELSE IF piece_count = 3 /\ empty_count = 1 THEN 100
            ELSE IF piece_count = 2 /\ empty_count = 2 THEN 10
            ELSE 0
    IN own - (IF opp_count = 3 /\ empty_count = 1 THEN 80 ELSE 0)

\* the grid the scans index: range(6) rows, range(7) columns
ScanInRange(b) == b.ROW_COUNT >= 6 /\ b.COLUMN_COUNT >= 7

RECURSIVE SASumWindows(_, _, _, _)
SASumWindows(b, piece, opp_piece, ws) ==
    IF ws = {} THEN 0
    ELSE LET w == CHOOSE x \in ws : TRUE
         IN score_window(WindowCells(b, w), piece, opp_piece)
            + SASumWindows(b, piece, opp_piece, ws \ {w})

\* lines 34-67: the windows of the 6 x 7 grid and the centre column 3
SAScore(temp_board, piece) ==
    LET opp_piece == IF piece = 2 THEN 1 ELSE 2
    IN SASumWindows(temp_board, piece, opp_piece, WindowsOfSize(6, 7))
       + 3 * Cardinality({r \in 0 .. 5 : Cell(temp_board, r, 3) = piece})

\* the value returned, whether the call raised instead, and the caller's
\* board as the call leaves it
objective_function(piece, b, col) ==
    IF ~is_valid_location(b, col)
    THEN [raised |-> FALSE, value |-> INF, board |-> b]
    ELSE LET temp_board == copy_board(b)
             b1         == drop_piece(b, col, piece)
         IN IF winning_move(b1, piece)
            THEN [raised |-> FALSE, value |-> SA_WIN_EVAL, board |-> b1]
            ELSE IF ~ScanInRange(b)
            THEN [raised |-> TRUE, value |-> 0, board |-> b1]
            ELSE [raised |-> FALSE, value |-> 0 - SAScore(temp_board, piece),
                  board |-> b1]

\* the columns get_neighbor may return: an adjacent valid column or any
\* other valid column
get_neighbor(current_col, valid_locations) ==
    LET other_cols == {valid_locations[k] : k \in DOMAIN valid_locations}
                          \ {current_col}
    IN IF Len(valid_locations) <= 1 \/ other_cols = {}
       THEN {current_col}
       ELSE other_cols

\* lines 144-156: a better or equal candidate is taken; a worse one with
\* probability exp(-delta / temperature), which is 0 for an infinite delta
Accepted(candidate_eval, current_eval, lucky) ==
    IF candidate_eval = INF THEN FALSE
    ELSE IF current_eval = INF THEN TRUE
    ELSE IF candidate_eval - current_eval <= 0 THEN TRUE
    ELSE lucky

\* SimulatedAnnealing(piece)
InitSA ==
    \E p \in Pieces :
        InitWith(OptRows, OptCols,
                 [kind |-> "simulated_annealing", piece |-> p, depth |-> 5,
                  max_iterations |-> 0])

OptKinds == {"expectimax", "simulated_annealing", "genetic"}

PlayOpt == PlayUpTo(OptKinds, OptRows * OptCols)

\* get_move -> simulated_annealing, lines 118-132
SABegin ==
    /\ pc = "game"
    /\ bot.kind = "simulated_annealing"
    /\ board.CURR_PLAYER = bot.piece
    /\ before' = board
    /\ LET valid_locations == get_valid_locations(board)
       IN IF valid_locations = <<>>
          THEN /\ result' = None
               /\ pc' = "returned"
               /\ UNCHANGED <<board, opt>>
          ELSE IF Len(valid_locations) = 1
          THEN /\ result' = valid_locations[1]
               /\ pc' = "returned"
               /\ UNCHANGED <<board, opt>>
          ELSE \E k \in DOMAIN valid_locations :
                  LET current_col == valid_locations[k]
                      o == objective_function(bot.piece, board, current_col)
                  IN /\ board' = o.board
                     /\ IF o.raised
                        THEN /\ pc' = "raised"
                             /\ UNCHANGED <<result, opt>>
                        ELSE /\ pc' = "sa_loop"
                             /\ opt' = [ valid_locations |-> valid_locations,
                                         current_col  |-> current_col,
                                         current_eval |-> o.value,
                                         best_col     |-> current_col,
                                         best_eval    |-> o.value,
                                         i            |-> 0 ]
                             /\ UNCHANGED result
    /\ UNCHANGED bot
    /\ UNCHANGED mcvars

\* lines 135-161, one pass
SAIterate ==
    /\ pc = "sa_loop"
    /\ opt.i < SAIterations
    /\ \E candidate_col \in get_neighbor(opt.current_col, opt.valid_locations),
          lucky \in BOOLEAN :
          LET o       == objective_function(bot.piece, board, candidate_col)
              accept  == Accepted(o.value, opt.current_eval, lucky)
              cur_col  == IF accept THEN candidate_col ELSE opt.current_col
              cur_eval == IF accept THEN o.value ELSE opt.current_eval
              better   == cur_eval < opt.best_eval
          IN /\ board' = o.board
             /\ IF o.raised
                THEN /\ pc' = "raised"
                     /\ UNCHANGED opt
                ELSE /\ opt' = [ valid_locations |-> opt.valid_locations,
                                 current_col  |-> cur_col,
                                 current_eval |-> cur_eval,
                                 best_col     |-> IF better THEN cur_col
                                                  ELSE opt.best_col,
                                 best_eval    |-> IF better THEN cur_eval
                                                  ELSE opt.best_eval,
                                 i            |-> opt.i + 1 ]
                     /\ UNCHANGED pc
    /\ UNCHANGED <<bot, result, before>>
    /\ UNCHANGED mcvars

\* line 163 and get_move's return
SAReturn ==
    /\ pc = "sa_loop"
    /\ opt.i = SAIterations
    /\ result' = opt.best_col
    /\ pc' = "returned"
    /\ opt' = NoLocals
    /\ UNCHANGED <<board, bot, before>>
    /\ UNCHANGED mcvars

----------------------------------------------------------------------------
(* GeneticAlgorithm.  It does not override the evaluator: fitness is the   *)
(* base class's score_position.                                            *)

RECURSIVE BaseSumWindows(_, _, _)
BaseSumWindows(b, piece, ws) ==
    IF ws = {} THEN 0
    ELSE LET w == CHOOSE x \in ws : TRUE
         IN base_evaluate_window(WindowCells(b, w), piece)
            + BaseSumWindows(b, piece, ws \ {w})

\* Evaluation.score_position on a bot without overrides
evaluation_score_position(b, piece) ==
    center_count(b, piece) * 3 + BaseSumWindows(b, piece, Windows(b))

Min(a, b) == IF a <= b THEN a ELSE b

\* list.sort(key = score, reverse = True): highest first, equal scores in
\* their original order
RECURSIVE SortedIndices(_, _)
SortedIndices(scores, left) ==
    IF left = {} THEN <<>>
    ELSE LET first == CHOOSE i \in left :
                          \A j \in left : \/ scores[i] > scores[j]
                                          \/ scores[i] = scores[j] /\ i <= j
         IN <<first>> \o SortedIndices(scores, left \ {first})

select_best(population, fitness_scores, elite_count) ==
    LET n     == Min(Len(population), Len(fitness_scores))
        order == SortedIndices(fitness_scores, 1 .. n)
    IN [k \in 1 .. Min(elite_count, n) |-> population[order[k]]]

\* GeneticAlgorithm(piece)
InitGA ==
    \E p \in Pieces :
        InitWith(OptRows, OptCols,
                 [kind |-> "genetic", piece |-> p, depth |-> 0,
                  max_iterations |-> 0])

\* genetic_algorithm without the guard of lines 29-30: create_population
\* draws from the valid columns, random.choice raises on an empty list
GABeginUnguarded ==
    /\ pc = "game"
    /\ bot.kind = "genetic"
    /\ board.CURR_PLAYER = bot.piece
    /\ before' = board
    /\ LET valid_locations == get_valid_locations(board)
       IN IF valid_locations = <<>>
          THEN /\ pc' = "raised"
               /\ UNCHANGED <<result, opt>>
          ELSE /\ \E population \in [1 .. GAPopulation ->
                        {valid_locations[k] : k \in DOMAIN valid_locations}] :
                      opt' = [ valid_locations |-> valid_locations,
                               population  |-> population,
                               generation  |-> 0,
                               best_genome |-> None ]
               /\ pc' = "ga_loop"
               /\ UNCHANGED result
    /\ UNCHANGED <<board, bot>>
    /\ UNCHANGED mcvars

\* get_move -> genetic_algorithm, lines 28-32
GABegin ==
    /\ pc = "game"
    /\ bot.kind = "genetic"
    /\ board.CURR_PLAYER = bot.piece
    /\ before' = board
    /\ LET valid_locations == get_valid_locations(board)
       IN IF valid_locations = <<>>
          THEN /\ result' = None
               /\ pc' = "returned"
               /\ UNCHANGED opt
          ELSE /\ \E population \in [1 .. GAPopulation ->
                        {valid_locations[k] : k \in DOMAIN valid_locations}] :
                      opt' = [ valid_locations |-> valid_locations,
                               population  |-> population,
                               generation  |-> 0,
                               best_genome |-> None ]
               /\ pc' = "ga_loop"
               /\ UNCHANGED result
    /\ UNCHANGED <<board, bot>>
    /\ UNCHANGED mcvars

\* lines 34-54, one generation: the elite, then children that are a parent
\* from the elite or, mutated, any valid column
GAGeneration ==
    /\ pc = "ga_loop"
    /\ opt.generation < GAGenerations
    /\ \E fitness_scores \in
            {[k \in DOMAIN opt.population |->
                 evaluation_score_position(
                     drop_piece(copy_board(board), opt.population[k], bot.piece),
                     bot.piece)]} :
       \E best_moves \in {select_best(opt.population, fitness_scores, GAElite)} :
       \E children \in [1 .. GAPopulation - Len(best_moves) ->
                           {opt.valid_locations[k] : k \in DOMAIN opt.valid_locations}] :
          LET next_generation == best_moves \o children
          IN opt' = [ valid_locations |-> opt.valid_locations,
                      population  |-> next_generation,
                      generation  |-> opt.generation + 1,
                      best_genome |->
                          select_best(next_generation, fitness_scores, 1)[1] ]
    /\ UNCHANGED <<board, bot, pc, result, before>>
    /\ UNCHANGED mcvars

\* line 56 and get_move's return
GAReturn ==
    /\ pc = "ga_loop"
    /\ opt.generation = GAGenerations
    /\ result' = opt.best_genome
    /\ pc' = "returned"
    /\ opt' = NoLocals
    /\ UNCHANGED <<board, bot, before>>
    /\ UNCHANGED mcvars

\* ExpectiMaxBot on the optimizers' board
InitEMOpt ==
    \E p \in Pieces, d \in 1 .. MaxDepth :
        InitWith(OptRows, OptCols,
                 [kind |-> "expectimax", piece |-> p, depth |-> d, max_iterations |-> 0])

NextOpt ==
    \/ PlayOpt
    \/ ExpectiMaxGetMove
    \/ SABegin \/ SAIterate \/ SAReturn
    \/ GABegin \/ GAGeneration \/ GAReturn

\* the three bots without tree state, on games played to the end
SpecOpt == (InitEMOpt \/ InitSA \/ InitGA) /\ [][NextOpt]_vars

----------------------------------------------------------------------------
(* Properties of ExpectiMaxBot.get_move.                                   *)

InSeq(x, seq) == \E k \in DOMAIN seq : seq[k] = x

EMReturned == pc = "returned" /\ bot.kind = "expectimax"

\* columns where dropping piece completes four in a row
WinningColumns(b, piece) ==
    { c \in Columns(b) : is_valid_location(b, c)
                      /\ winning_move(drop_piece(b, c, piece), piece) }

\* C1: on every board with a valid column, won or not, get_move returns one
\* of the board's valid columns and never None
C1_ReturnsValidColumn ==
    (EMReturned /\ get_valid_locations(before) # <<>>)
        => InSeq(result, get_valid_locations(before))

\* C3: when the bot can complete four in a row at once, get_move returns a
\* column that does
C3_TakesImmediateWin ==
    (EMReturned /\ ~is_terminal_node(before)
                /\ WinningColumns(before, bot.piece) # {})
        => result \in WinningColumns(before, bot.piece)

\* C4: at depth >= 2, without a win of its own and with an opponent threat,
\* get_move returns a column the opponent would win in
C4_BlocksThreat ==
    (EMReturned /\ bot.depth >= 2 /\ ~is_terminal_node(before)
                /\ WinningColumns(before, bot.piece) = {}
                /\ WinningColumns(before, OtherPiece(bot.piece)) # {})
        => result \in WinningColumns(before, OtherPiece(bot.piece))

(* The same search with the two cut-offs (lines 155-156, 185-186) removed: *)
(* every valid column is evaluated at every ply.                           *)
RECURSIVE full_expectimax(_, _, _, _, _, _)
RECURSIVE FullMaxLoop(_, _, _, _, _, _, _, _, _)
RECURSIVE FullExpectLoop(_, _, _, _, _, _, _, _, _)

FullMaxLoop(piece, b, depth, alpha, beta, valid, i, value, column) ==
    IF i > Len(valid) THEN [column |-> column, value |-> value]
    ELSE LET b_copy    == drop_piece(copy_board(b), valid[i], piece)
             new_score == full_expectimax(piece, b_copy, depth - 1, alpha, beta, FALSE).value
             better    == new_score > value
             value2    == IF better THEN new_score ELSE value
         IN FullMaxLoop(piece, b, depth, Max(alpha, value2), beta, valid, i + 1,
                        value2, IF better THEN valid[i] ELSE column)

FullExpectLoop(piece, b, depth, alpha, beta, valid, i, value, column) ==
    IF i > Len(valid) THEN [column |-> column, value |-> value]
    ELSE LET b_copy    == drop_piece(copy_board(b), valid[i], OtherPiece(piece))
             new_score == full_expectimax(piece, b_copy, depth - 1, alpha, beta, TRUE).value
             lower     == new_score <= value
             value2    == IF lower THEN new_score ELSE value
         IN FullExpectLoop(piece, b, depth, alpha, value2 \div Len(valid), valid, i + 1,
                           value2, IF lower THEN valid[i] ELSE column)

full_expectimax(piece, b, depth, alpha, beta, maximizingPlayer) ==
    IF depth = 0 \/ is_terminal_node(b)
    THEN [column |-> None, value |-> expectimax(piece, b, 0, alpha, beta, maximizingPlayer).value]
    ELSE IF maximizingPlayer
         THEN FullMaxLoop(piece, b, depth, alpha, beta, get_valid_locations(b), 1,
                          NEG_INF, DRAWN)
         ELSE FullExpectLoop(piece, b, depth, alpha, beta, get_valid_locations(b), 1,
                             0, DRAWN)

\* C9: on a non-terminal board get_move returns the column the search
\* without cut-offs returns
C9_PruningKeepsMove ==
    (EMReturned /\ ~is_terminal_node(before))
        => result = full_expectimax(bot.piece, before, bot.depth, NEG_INF, 0, TRUE).column

----------------------------------------------------------------------------
(* Properties of MonteCarloBot.                                            *)

MCSearching == pc \in {"select", "rollout", "backprop", "pick"}

\* an iteration has just completed, or no search is running
MCBetweenIterations ==
    \/ pc = "pick"
    \/ pc = "select" /\ node = rootnode /\ iter > 0

\* the root of the tree the bot keeps
MCRoot == IF MCSearching THEN rootnode ELSE currentNode

RECURSIVE SumVisits(_, _)
SumVisits(ns, ch) ==
    IF ch = <<>> THEN 0 ELSE ns[Head(ch)].visits + SumVisits(ns, Tail(ch))

ChildVisits(ns, n) == SumVisits(ns, ns[n].children)

RECURSIVE Subtree(_, _)
Subtree(ns, n) ==
    {n} \cup UNION {Subtree(ns, ns[n].children[k]) : k \in DOMAIN ns[n].children}

\* C2: every get_move call of a game returns a valid column of the board it
\* was handed; no call ends in an exception, a running search always has a
\* next step and completes at most max_iterations iterations
C2_MCReturnsValidColumn ==
    bot.kind = "montecarlo"
        => /\ pc # "raised"
           /\ pc = "mc_returned" => InSeq(result, get_valid_locations(before))
           /\ iter <= bot.max_iterations
           /\ MCSearching => ENABLED NextMC

\* a second call has returned from a root reused from the first call's tree
C2_Witness ==
    /\ pc = "mc_returned" /\ turns = 2 /\ started > 0
    /\ InSeq(result, get_valid_locations(before))

\* C6: after N completed iterations the root has its starting visits plus N,
\* and between iterations the root's children never sum to more visits
C6_VisitAccounting ==
    /\ (MCSearching /\ MCBetweenIterations)
          => /\ nodes[rootnode].visits = started + iter
             /\ ChildVisits(nodes, rootnode) <= nodes[rootnode].visits
    /\ (bot.kind = "montecarlo" /\ ~MCSearching /\ currentNode # NoNode)
          => ChildVisits(nodes, currentNode) <= nodes[currentNode].visits

\* a search on a reused root has completed its iterations
C6_Witness ==
    /\ pc = "pick" /\ started > 0 /\ iter >= 1
    /\ nodes[rootnode].visits = started + iter

\* C10 as stated: between iterations every visited node of the tree, the
\* root included, has children summing to at most its visits minus 1
C10_AsStated ==
    (bot.kind = "montecarlo" /\ (MCBetweenIterations \/ ~MCSearching) /\ MCRoot # NoNode)
        => \A n \in Subtree(nodes, MCRoot) :
              nodes[n].visits >= 1 => ChildVisits(nodes, n) <= nodes[n].visits - 1

\* C10 amended: the bound with minus 1 holds for every node made by
\* Node.expand; a root made fresh has children summing to at most its visits
C10_ExpandedNodes ==
    (bot.kind = "montecarlo" /\ (MCBetweenIterations \/ ~MCSearching) /\ MCRoot # NoNode)
        => \A n \in Subtree(nodes, MCRoot) :
              IF nodes[n].parent # NoNode
              THEN ChildVisits(nodes, n) <= nodes[n].visits - 1
              ELSE ChildVisits(nodes, n) <= nodes[n].visits

\* a search has ended on a reused root whose children's visits are one
\* short of its own
C10_Witness ==
    /\ pc = "pick"
    /\ nodes[rootnode].parent # NoNode
    /\ nodes[rootnode].children # <<>>
    /\ ChildVisits(nodes, rootnode) = nodes[rootnode].visits - 1

\* the child of n reached by move m, if there is one
ChildrenByMove(ns, n, m) ==
    IF n = NoNode THEN {}
    ELSE {ns[n].children[k] : k \in {j \in DOMAIN ns[n].children :
                                        ns[ns[n].children[j]].move = m}}

ReRootedTo(n, m) ==
    IF ChildrenByMove(nodes, n, m) # {}
    THEN /\ currentNode' \in ChildrenByMove(nodes, n, m)
         /\ nodes'[currentNode'] = nodes[currentNode']
    ELSE /\ currentNode' \notin DOMAIN nodes
         /\ nodes'[currentNode'].visits = 0
         /\ nodes'[currentNode'].wins2 = 0
         /\ nodes'[currentNode'].children = <<>>

\* C7: get_move re-roots to the existing child of the played move, with its
\* statistics, children and unexplored moves as they were, and makes a fresh
\* node only when there is no such child
C7_ReRooting ==
    [][ /\ (MCAsked /\ turns' = turns + 1 /\ board.PREV_MOVE # None)
              => ReRootedTo(currentNode, board.PREV_MOVE)
        /\ (pc = "pick" /\ pc' = "mc_returned")
              => ReRootedTo(rootnode, result') ]_vars

\* the second call found the opponent's move among the children: its root
\* carries visits and children from the first search
C7_Witness ==
    /\ turns = 2 /\ MCSearching /\ iter = 0 /\ pc = "select"
    /\ started > 0
    /\ nodes[rootnode].visits = started

\* C5: the board handed to get_move is the same when the call returns, and
\* at every step of a Monte Carlo search
C5_BoardUnchanged ==
    /\ (pc = "returned" /\ bot.kind = "expectimax") => board = before
    /\ (bot.kind = "montecarlo" /\ (MCSearching \/ pc \in {"mc_returned", "raised"}))
          => board = before

\* a Monte Carlo search that expanded nodes and rolled out has returned
C5_Witness ==
    /\ pc = "mc_returned" /\ Len(nodes) >= 3 /\ iter >= 2
    /\ board = before

\* a get_move call of one of the three bots, made on a board without a valid
\* column, has ended
AskedOnFullBoard ==
    /\ bot.kind \in OptKinds
    /\ pc \in {"returned", "raised"}
    /\ get_valid_locations(before) = <<>>

----------------------------------------------------------------------------
(* Scope of backpropagation, terminal positions in the tree.               *)

\* C11: while a search runs, a node whose visits or accumulated result
\* change lies in the current root's subtree and gains exactly one visit;
\* the former root and every node outside the subtree stay as they are
C11_BackpropScope ==
    [][ MCSearching =>
          \A n \in DOMAIN nodes :
              (nodes'[n].visits # nodes[n].visits \/ nodes'[n].wins2 # nodes[n].wins2)
                  => /\ n \in Subtree(nodes, rootnode)
                     /\ nodes'[n].visits = nodes[n].visits + 1 ]_vars

\* some player has four in a row on b
Won(b) == winning_move(b, PLAYER1_PIECE) \/ winning_move(b, PLAYER2_PIECE)

\* C12: during a search no piece is dropped on a working board that is
\* already won, and a node whose board is won gets no child
C12_WonIsTerminal ==
    [][ MCSearching =>
          /\ Plies(state') > Plies(state) => ~Won(state)
          /\ Len(nodes') > Len(nodes) /\ pc = "select"
                => ~Won(nodes[node].board) ]_vars

----------------------------------------------------------------------------
(* Frame of SimulatedAnnealing.get_move.                                   *)

\* C13: when SimulatedAnnealing.get_move has returned, the caller's board is
\* the board it was handed, and a returned column is a valid column of it
C13_SABoardUnchanged ==
    (bot.kind = "simulated_annealing" /\ pc = "returned")
        => /\ board = before
           /\ result # None => InSeq(result, get_valid_locations(board))

----------------------------------------------------------------------------
(* Final move choice and shape of the tree.                                *)

\* C14: the move returned by a search is the move of a child of the root
\* whose wins / visits no other child exceeds, and which every later child
\* of the list falls short of
C14_PicksBestWinRate ==
    [][ (pc = "pick" /\ pc' = "mc_returned") =>
          LET ch == nodes[rootnode].children
          IN \E k \in DOMAIN ch :
                /\ nodes[ch[k]].move = result'
                /\ \A j \in DOMAIN ch :
                      /\ nodes[ch[k]].wins2 * nodes[ch[j]].visits
                            >= nodes[ch[j]].wins2 * nodes[ch[k]].visits
                      /\ j > k => nodes[ch[k]].wins2 * nodes[ch[j]].visits
                                     > nodes[ch[j]].wins2 * nodes[ch[k]].visits ]_vars

\* a search has returned the move of a child that has fewer visits than a
\* sibling and the same win rate as an earlier sibling
C14_Witness ==
    /\ pc = "mc_returned"
    /\ nodes[currentNode].parent # NoNode
    /\ nodes[currentNode].move = result
    /\ LET ch == nodes[nodes[currentNode].parent].children
       IN /\ \E j \in DOMAIN ch : nodes[ch[j]].visits > nodes[currentNode].visits
          /\ \E j \in DOMAIN ch :
                /\ ch[j] < currentNode
                /\ nodes[ch[j]].wins2 * nodes[currentNode].visits
                      = nodes[currentNode].wins2 * nodes[ch[j]].visits

SeqToSet(seq) == {seq[k] : k \in DOMAIN seq}

\* the children of n have distinct moves, none of them still unexplored, and
\* with the unexplored moves they are the valid columns of n's board
MovesPartition(ns, n) ==
    LET ch == ns[n].children
    IN /\ \A i, j \in DOMAIN ch : ns[ch[i]].move = ns[ch[j]].move => i = j
       /\ \A i \in DOMAIN ch : ~InSeq(ns[ch[i]].move, ns[n].available_moves)
       /\ {ns[ch[i]].move : i \in DOMAIN ch} \cup SeqToSet(ns[n].available_moves)
             = SeqToSet(get_valid_locations(ns[n].board))

\* C15: in the tree under the current root every node's children and
\* unexplored moves partition the valid columns of its board; between
\* iterations every child has been visited; within an iteration at most one
\* node, the one just added, is unvisited; the root's board is the board the
\* search was handed
C15_TreeWellFormed ==
    (bot.kind = "montecarlo" /\ MCRoot # NoNode)
        => /\ \A n \in Subtree(nodes, MCRoot) : MovesPartition(nodes, n)
           /\ (MCBetweenIterations \/ ~MCSearching)
                 => \A n \in Subtree(nodes, MCRoot) \ {MCRoot} : nodes[n].visits >= 1
           /\ MCSearching
                 => /\ Cardinality({n \in Subtree(nodes, rootnode) \ {rootnode} :
                                       nodes[n].visits = 0}) <= 1
                    /\ nodes[rootnode].board = board

\* a second search, on a root reused from the first call's tree, has added
\* a node under a root that already had children
C15_Witness ==
    /\ pc = "rollout" /\ turns = 2 /\ started > 0
    /\ Len(nodes[rootnode].children) >= 1
    /\ nodes[node].visits = 0
    /\ nodes[rootnode].board = board

====
